---- MODULE Spec2Model ----
(***************************************************************************)
(* Model of the three MicroPython scripts of the Device-Drivers repository *)
(*   MicroPython/bare_metal_driver.py  register-level GPIO toggling        *)
(*   MicroPython/output_driver.py      LED blinking through pyb.Pin        *)
(*   MicroPython/input_driver.py       button-to-LED through pyb.Pin       *)
(*                                                                         *)
(* A 32-bit register value is modelled as the set of positions of its 1    *)
(* bits (a subset of 0..31), so that &, |, ^ and ~ are exact at width 32.  *)
(* Register addresses are ordinary integers (all below 2^31).              *)
(***************************************************************************)
EXTENDS Integers, Sequences, FiniteSets, TLC

VARIABLES
    mem,        \* stm.mem32: register address -> 32-bit word
    bm_pc,      \* bare_metal_driver: the statement main() executes next
    acc,        \* bare_metal_driver: the register accesses made so far, in order
    mode0,      \* bare_metal_driver: GPIO_A_MODE_R as it was before main() started
    test,       \* register test bench: the operation being repeated, NoTest before
    out_pc,     \* output_driver: line of the statement executed next (0 = stopped)
    out_events, \* output_driver: the last pin writes and delays, oldest first
    in_pc,      \* input_driver: the statement main() executes next
    in_sample,  \* input_driver: the button level read in this iteration
    in_events   \* input_driver: the last button samples and LED writes, oldest first

vars == <<mem, bm_pc, acc, mode0, test, out_pc, out_events, in_pc, in_sample, in_events>>

-----------------------------------------------------------------------------
(* Bounds of the model *)

\* the register test bench repeats one operation at most this many times
MaxRep == 4
\* the event windows of the two pyb.Pin scripts keep this many events
MaxEvents == 6
\* the bare-metal access log is cut off at this length
MaxAcc == 12

-----------------------------------------------------------------------------
(* 32-bit words *)

WordBits == 0..31

\* 1 << n
Shl1(n) == {n}

BitAnd(a, b) == a \cap b
BitOr(a, b) == a \cup b
BitXor(a, b) == (a \ b) \cup (b \ a)
\* ~a, seen through a 32-bit register
BitNot(a) == WordBits \ a

ZeroWord == {}
AllOnes == WordBits

-----------------------------------------------------------------------------
(* bare_metal_driver.py: addresses and masks *)

PERIPH_BASE == 1073741824
APB1PERIPH_BASE == PERIPH_BASE + 0
GPIOA_BASE == APB1PERIPH_BASE + 0
RCC_BASE == PERIPH_BASE + 14336
RCC_APB1ENR == RCC_BASE + 48
GPIO_A_MODE_R == GPIOA_BASE + 0
GPIO_A_OD_R == GPIOA_BASE + 20

GPIOAEN == Shl1(0)
PINS == Shl1(5)
LED_PIN == PINS

\* the registers the program names
RegNames == {"RCC_APB1ENR", "GPIO_A_MODE_R", "GPIO_A_OD_R"}

AddrOf(r) ==
    CASE r = "RCC_APB1ENR" -> RCC_APB1ENR
      [] r = "GPIO_A_MODE_R" -> GPIO_A_MODE_R
      [] r = "GPIO_A_OD_R" -> GPIO_A_OD_R

Addrs == {AddrOf(r) : r \in RegNames}

-----------------------------------------------------------------------------
(* stm.mem32 *)

\* stm.mem32[a]
Mem32Read(m, a) == m[a]

\* a 16-bit store in place of the 32-bit one: the upper half keeps its old content
Mem32Write_Half(m, a, v) == [m EXCEPT ![a] = BitOr(BitAnd(v, 0..15), BitAnd(m[a], 16..31))]

\* stm.mem32[a] = v
Mem32Write(m, a, v) == [m EXCEPT ![a] = BitAnd(v, AllOnes)]

\* = in place of &=
ClearBits_Assign(m, a, mask) == Mem32Write(m, a, BitNot(mask))

\* ^= in place of &=~
ClearBits_Xor(m, a, mask) == Mem32Write(m, a, BitXor(Mem32Read(m, a), mask))

\* stm.mem32[a] &=~ mask
ClearBits(m, a, mask) == Mem32Write(m, a, BitAnd(Mem32Read(m, a), BitNot(mask)))

\* |= in place of ^=
ToggleBits_Or(m, a, mask) == Mem32Write(m, a, BitOr(Mem32Read(m, a), mask))

\* stm.mem32[a] ^= mask
ToggleBits(m, a, mask) == Mem32Write(m, a, BitXor(Mem32Read(m, a), mask))

\* modify(register, set_mask, clear_mask) of the register access layer:
\* (read(register) & ~clear_mask) | set_mask, written back
Modify(m, a, s, c) == Mem32Write(m, a, BitOr(BitAnd(Mem32Read(m, a), BitNot(c)), s))

\* register contents the hardware may hold when a program starts
SampleWords == {ZeroWord, Shl1(5), Shl1(10), {27, 29, 31}, AllOnes}

-----------------------------------------------------------------------------
(* bare_metal_driver.py: the program *)

\* names bound at module level when main() runs (lines 1-21)
BareMetalGlobals ==
    {"pyb", "stm", "PERIPH_BASE", "APB1PERIPH_BASE", "GPIOA_BASE", "RCC_BASE",
     "RCC_APB1ENR", "GPIO_A_MODE_R", "GPIO_A_OD_R", "GPIOAEN", "PINS", "LED_PIN",
     "psudo_delay", "main"}

\* number of parameters of psudo_delay
PsudoDelayArity == 0

\* one register access: a read returning v, a write storing v
Rd(r, v) == [kind |-> "r", reg |-> r, val |-> v]
Wr(r, v) == [kind |-> "w", reg |-> r, val |-> v]

\* what the other programs and the test bench hold while this one runs
BmFrame == UNCHANGED <<test, out_pc, out_events, in_pc, in_sample, in_events>>

\* main() entered at its second statement
BmEntry_SkipClock == "l23"

\* the first statement of main()
BmEntry == "l22"

\* line 22: stm.mem32[RCC_APB1ENR] = GPIOAEN
EnableClock ==
    /\ bm_pc = "l22"
    /\ mem' = Mem32Write(mem, RCC_APB1ENR, GPIOAEN)
    /\ acc' = Append(acc, Wr("RCC_APB1ENR", GPIOAEN))
    /\ bm_pc' = "l23"
    /\ UNCHANGED mode0
    /\ BmFrame

\* line 23: stm.mem32[GPIO_A_MODE_R] = (1<<10)
WriteMode ==
    /\ bm_pc = "l23"
    /\ mem' = Mem32Write(mem, GPIO_A_MODE_R, Shl1(10))
    /\ acc' = Append(acc, Wr("GPIO_A_MODE_R", Shl1(10)))
    /\ bm_pc' = "l24"
    /\ UNCHANGED mode0
    /\ BmFrame

\* line 24: stm.mem32[GPIO_A_MODE_R] &=~ (1<<10)
ClearMode ==
    /\ bm_pc = "l24"
    /\ mem' = ClearBits(mem, GPIO_A_MODE_R, Shl1(10))
    /\ acc' = acc \o <<Rd("GPIO_A_MODE_R", Mem32Read(mem, GPIO_A_MODE_R)),
                        Wr("GPIO_A_MODE_R", Mem32Read(mem', GPIO_A_MODE_R))>>
    /\ bm_pc' = "l25"
    /\ UNCHANGED mode0
    /\ BmFrame

\* line 25: the expression statement `stm`; line 26: while True
EvalStm ==
    /\ bm_pc = "l25"
    /\ bm_pc' = IF "stm" \in BareMetalGlobals THEN "l27" ELSE "aborted"
    /\ UNCHANGED <<mem, acc, mode0>>
    /\ BmFrame

\* line 27: stm.mem32[GPIO_A_OD_R] ^= LED_PIN
Toggle ==
    /\ bm_pc = "l27"
    /\ Len(acc) + 2 <= MaxAcc
    /\ mem' = ToggleBits(mem, GPIO_A_OD_R, LED_PIN)
    /\ acc' = acc \o <<Rd("GPIO_A_OD_R", Mem32Read(mem, GPIO_A_OD_R)),
                        Wr("GPIO_A_OD_R", Mem32Read(mem', GPIO_A_OD_R))>>
    /\ bm_pc' = "l28"
    /\ UNCHANGED mode0
    /\ BmFrame

\* line 28: pseuo_delay(90000). The name is looked up among the globals; an
\* unbound name raises NameError, a call with the wrong number of arguments
\* raises TypeError, and either ends the program. Otherwise the callee counts
\* to 100000 (lines 16-19), returns, and the loop goes back to line 27.
CallDelay ==
    /\ bm_pc = "l28"
    /\ bm_pc' = IF "pseuo_delay" \in BareMetalGlobals /\ PsudoDelayArity = 1
                THEN "l27"
                ELSE "aborted"
    /\ UNCHANGED <<mem, acc, mode0>>
    /\ BmFrame

-----------------------------------------------------------------------------
(* Register test bench: one register operation, applied to a simulated memory   *)
(* array with arbitrary content and repeated with the same arguments            *)

\* masks the operations are tried with
SampleMasks == {ZeroWord, Shl1(5), Shl1(10), {10, 11}}

NoTest == [op |-> "none"]

\* the memory after the operation `call` on memory m
Effect(m, call) ==
    CASE call.op = "write" -> Mem32Write(m, AddrOf(call.reg), call.s)
      [] call.op = "clear" -> ClearBits(m, AddrOf(call.reg), call.c)
      [] call.op = "toggle" -> ToggleBits(m, AddrOf(call.reg), call.s)
      [] call.op = "modify" -> Modify(m, AddrOf(call.reg), call.s, call.c)

SameCall(call) ==
    /\ test.op = call.op
    /\ test.reg = call.reg
    /\ test.s = call.s
    /\ test.c = call.c

\* `call` may be applied: as the first operation of the run, or as the same
\* operation once more
CanApply(call) ==
    \/ test = NoTest
    \/ SameCall(call) /\ test.rep < MaxRep

\* the record of the run after `call` left the memory as `after`: rep counts the
\* applications, pre is the memory before the latest one, base the memory
\* before the first one and once the memory after the first one
Applied(call, after) ==
    [op |-> call.op, reg |-> call.reg, s |-> call.s, c |-> call.c,
     rep |-> IF test = NoTest THEN 1 ELSE test.rep + 1,
     pre |-> mem,
     base |-> IF test = NoTest THEN mem ELSE test.base,
     once |-> IF test = NoTest THEN after ELSE test.once]

TestFrame == UNCHANGED <<bm_pc, acc, mode0, out_pc, out_events, in_pc, in_sample, in_events>>

\* stm.mem32[R] = V
TestWrite ==
    /\ \E r \in RegNames, v \in SampleWords :
        LET call == [op |-> "write", reg |-> r, s |-> v, c |-> ZeroWord] IN
            /\ CanApply(call)
            /\ mem' = Effect(mem, call)
            /\ test' = Applied(call, mem')
    /\ TestFrame

\* stm.mem32[R] &=~ C
TestClear ==
    /\ \E r \in RegNames, c \in SampleMasks :
        LET call == [op |-> "clear", reg |-> r, s |-> ZeroWord, c |-> c] IN
            /\ CanApply(call)
            /\ mem' = Effect(mem, call)
            /\ test' = Applied(call, mem')
    /\ TestFrame

\* stm.mem32[R] ^= M
TestToggle ==
    /\ \E r \in RegNames, s \in SampleMasks :
        LET call == [op |-> "toggle", reg |-> r, s |-> s, c |-> ZeroWord] IN
            /\ CanApply(call)
            /\ mem' = Effect(mem, call)
            /\ test' = Applied(call, mem')
    /\ TestFrame

\* modify(R, S, C)
TestModify ==
    /\ \E r \in RegNames, s \in SampleMasks, c \in SampleMasks :
        LET call == [op |-> "modify", reg |-> r, s |-> s, c |-> c] IN
            /\ CanApply(call)
            /\ mem' = Effect(mem, call)
            /\ test' = Applied(call, mem')
    /\ TestFrame

-----------------------------------------------------------------------------
(* The two pyb.Pin scripts *)

\* names every MicroPython program can use unqualified
Builtins == {"print"}

Levels == {0, 1}

\* the window of the latest events: the oldest one leaves when it is full
Push(w, e) == IF Len(w) < MaxEvents THEN Append(w, e) ELSE Append(Tail(w), e)

(* output_driver.py *)

\* names bound at module level when main() runs (lines 1-3)
OutputGlobals == {"pyb", "main"}

\* names in scope at a line of main(): green_led is bound by line 4
OutScope(line) ==
    Builtins \cup OutputGlobals \cup (IF line > 4 THEN {"green_led"} ELSE {})

\* the statement at each line of main(): the names it looks up, what it does
\* when they are bound, and the line that follows it
OutStmt(line) ==
    CASE line = 4 -> [uses |-> {"pyb"}, kind |-> "new_pin", arg |-> 0, next |-> 5]
      [] line = 5 -> [uses |-> {"print", "green_led"}, kind |-> "print", arg |-> 0, next |-> 6]
      [] line = 6 -> [uses |-> {"print", "green_led"}, kind |-> "print", arg |-> 0, next |-> 7]
      [] line = 7 -> [uses |-> {"print", "green_led_name"}, kind |-> "print", arg |-> 0, next |-> 8]
      [] line = 8 -> [uses |-> {"print", "green_led_value"}, kind |-> "print", arg |-> 0, next |-> 10]
      [] line = 10 -> [uses |-> {"green_led_value"}, kind |-> "write", arg |-> 1, next |-> 11]
      [] line = 11 -> [uses |-> {"pyb"}, kind |-> "delay", arg |-> 1000, next |-> 12]
      [] line = 12 -> [uses |-> {"green_led_value"}, kind |-> "write", arg |-> 0, next |-> 13]
      [] line = 13 -> [uses |-> {"pyb"}, kind |-> "delay", arg |-> 1000, next |-> 10]

\* one statement of output_driver.main(). A name that is not in scope raises
\* NameError, which nothing catches: the program stops (out_pc = 0).
OutStep ==
    /\ out_pc # 0
    /\ LET st == OutStmt(out_pc) IN
           IF st.uses \subseteq OutScope(out_pc)
           THEN /\ out_pc' = st.next
                /\ out_events' = IF st.kind \in {"write", "delay"}
                                 THEN Push(out_events, <<st.kind, st.arg>>)
                                 ELSE out_events
           ELSE /\ out_pc' = 0
                /\ UNCHANGED out_events
    /\ UNCHANGED <<mem, bm_pc, acc, mode0, test, in_pc, in_sample, in_events>>

(* input_driver.py *)

\* names bound at module level when main() runs (lines 1-3)
InputGlobals == {"pyb", "main"}

\* names in scope at a statement of main(): line 4 binds green_led, line 5 button
InScope(pc) ==
    Builtins \cup InputGlobals
        \cup (IF pc # "l4" THEN {"green_led"} ELSE {})
        \cup (IF pc \notin {"l4", "l5"} THEN {"button"} ELSE {})

\* the statement reached when the names `uses` are bound, NameError otherwise
InGoto(uses, target) == IF uses \subseteq InScope(in_pc) THEN target ELSE "aborted"

InFrame == UNCHANGED <<mem, bm_pc, acc, mode0, test, out_pc, out_events>>

\* the comparison reversed: button.value() != 0
ButtonBranch_Reversed(level) == IF level # 0 THEN "l8" ELSE "l10"

\* line 7: if(button.value()==0): line 8, else: line 10
ButtonBranch(level) == IF level = 0 THEN "l8" ELSE "l10"

\* line 4: green_led=pyb.Pin('PA5',mode=pyb.Pin.OUT_PP)
InNewLed ==
    /\ in_pc = "l4"
    /\ in_pc' = InGoto({"pyb"}, "l5")
    /\ UNCHANGED <<in_sample, in_events>>
    /\ InFrame

\* line 5: button=pyb.Pin('PC13',mode=pyb.Pin.IN, pull=pyb.Pin.PULL_DOWN)
InNewButton ==
    /\ in_pc = "l5"
    /\ in_pc' = InGoto({"pyb"}, "l7")
    /\ UNCHANGED <<in_sample, in_events>>
    /\ InFrame

\* lines 6-7: while True: if(button.value()==0)
InSample ==
    /\ in_pc = "l7"
    /\ \E level \in Levels :
        /\ in_sample' = level
        /\ in_events' = Push(in_events, <<"sample", level>>)
        /\ in_pc' = InGoto({"button"}, ButtonBranch(level))
    /\ InFrame

\* line 8: green_led.value(1)
InLedOn ==
    /\ in_pc = "l8"
    /\ in_events' = Push(in_events, <<"write", 1>>)
    /\ in_pc' = InGoto({"green_led"}, "l7")
    /\ UNCHANGED in_sample
    /\ InFrame

\* line 10: green_led.value(0)
InLedOff ==
    /\ in_pc = "l10"
    /\ in_events' = Push(in_events, <<"write", 0>>)
    /\ in_pc' = InGoto({"green_led"}, "l7")
    /\ UNCHANGED in_sample
    /\ InFrame

-----------------------------------------------------------------------------
(* Initial states *)

BmIdle ==
    /\ bm_pc = BmEntry
    /\ acc = <<>>
    /\ mode0 = Mem32Read(mem, GPIO_A_MODE_R)

TestIdle == test = NoTest

PinsIdle ==
    /\ out_pc = 4
    /\ out_events = <<>>
    /\ in_pc = "l4"
    /\ in_sample = 0
    /\ in_events = <<>>

\* bare_metal_driver.main() about to start, or the test bench about to apply its
\* operation, on registers with arbitrary content
Init ==
    /\ mem \in [Addrs -> SampleWords]
    /\ BmIdle
    /\ TestIdle
    /\ PinsIdle

\* the two pyb.Pin scripts about to start; they never touch stm.mem32
InitPins ==
    /\ mem = [a \in Addrs |-> ZeroWord]
    /\ BmIdle
    /\ TestIdle
    /\ PinsIdle

Next ==
    \/ EnableClock
    \/ WriteMode
    \/ ClearMode
    \/ EvalStm
    \/ Toggle
    \/ CallDelay

Spec == Init /\ [][Next]_vars

\* the register operations on their own, on a memory with arbitrary content
NextReg ==
    \/ TestWrite
    \/ TestClear
    \/ TestToggle
    \/ TestModify

SpecReg == Init /\ [][NextReg]_vars

\* the two pyb.Pin scripts, each on a board of its own
NextPins ==
    \/ OutStep
    \/ InNewLed
    \/ InNewButton
    \/ InSample
    \/ InLedOn
    \/ InLedOff

SpecPins == InitPins /\ [][NextPins]_vars

-----------------------------------------------------------------------------
(* Properties of bare_metal_driver.main, checked under Spec *)

ClockOnAt(i) ==
    /\ acc[i].kind = "w"
    /\ acc[i].reg = "RCC_APB1ENR"
    /\ GPIOAEN \subseteq acc[i].val

GpioRegs == {"GPIO_A_MODE_R", "GPIO_A_OD_R"}

Toggled == \E i \in DOMAIN acc : acc[i].kind = "w" /\ acc[i].reg = "GPIO_A_OD_R"

\* main() is past its last access to GPIO_A_MODE_R
PastConfig == bm_pc \in {"l25", "l27", "l28", "aborted"}

\* 0 Unclocked, 1 Clocked, 2 Configured, 3 Active
PeriphRank ==
    IF Toggled THEN 3
    ELSE IF PastConfig THEN 2
    ELSE IF \E i \in DOMAIN acc : ClockOnAt(i) THEN 1
    ELSE 0

AccessOrder ==
    /\ \A i \in DOMAIN acc :
        acc[i].reg \in GpioRegs => \E j \in 1..(i - 1) : ClockOnAt(j)
    /\ \A i, j \in DOMAIN acc :
        acc[i].reg = "GPIO_A_MODE_R" /\ acc[j].reg = "GPIO_A_OD_R" => i < j
    /\ \A i \in DOMAIN acc :
        acc[i].reg = "GPIO_A_OD_R" =>
            \E j \in 1..(i - 1) : acc[j].kind = "w" /\ acc[j].reg = "GPIO_A_MODE_R"
    /\ \A i, j \in DOMAIN acc :
        (acc[i].kind = "w" /\ acc[i].reg = "GPIO_A_OD_R" /\ j > i) =>
            ~(acc[j].kind = "w" /\ acc[j].reg \in {"RCC_APB1ENR", "GPIO_A_MODE_R"})

\* C1: the peripheral goes Unclocked, Clocked, Configured, Active one state at a
\* time and never back; after every step the clock-enable bit was written to
\* RCC_APB1ENR before any access to GPIO_A_MODE_R or GPIO_A_OD_R, every access
\* to GPIO_A_MODE_R precedes every access to GPIO_A_OD_R, and no write to
\* RCC_APB1ENR or GPIO_A_MODE_R follows the first toggle.
C1_PeripheralOrder ==
    [][/\ AccessOrder'
       /\ PeriphRank' \in {PeriphRank, PeriphRank + 1}]_vars

\* the peripheral is Active: all four states were passed
C1_Witness == PeriphRank = 3 /\ Len(acc) = 6

\* C2: once in the control loop, main() never stops (neither returns nor aborts).
C2_LoopRunsForever == bm_pc # "aborted"

\* C3: from the Configured state on, the mode field of pin 5 (bits 11:10 of
\* GPIO_A_MODE_R) is 01, output: bit 10 set and bit 11 clear.
C3_ModeSelectsOutput ==
    PastConfig =>
        /\ 10 \in Mem32Read(mem, GPIO_A_MODE_R)
        /\ 11 \notin Mem32Read(mem, GPIO_A_MODE_R)

\* C9: after the configuration step every bit of GPIO_A_MODE_R outside bits
\* 11:10 is as it was before main() started.
C9_OtherPinsUntouched ==
    PastConfig => Mem32Read(mem, GPIO_A_MODE_R) \ {10, 11} = mode0 \ {10, 11}

-----------------------------------------------------------------------------
(* Properties of the register operations, checked under SpecReg *)

Ran(op) == test.op = op

TestAddr == AddrOf(test.reg)

OthersKept == \A r \in RegNames \ {test.reg} :
    Mem32Read(mem, AddrOf(r)) = Mem32Read(test.pre, AddrOf(r))

PinBit(w) == IF LED_PIN \subseteq w THEN 1 ELSE 0

ToggleRunFromZero ==
    /\ Ran("toggle")
    /\ test.reg = "GPIO_A_OD_R"
    /\ test.s = LED_PIN
    /\ Mem32Read(test.base, GPIO_A_OD_R) = ZeroWord

\* C4: starting from GPIO_A_OD_R = 0x00000000, after N toggle steps with mask
\* LED_PIN the output bit of the pin equals N mod 2.
C4_ToggleParity ==
    /\ (test = NoTest /\ Mem32Read(mem, GPIO_A_OD_R) = ZeroWord) =>
           PinBit(Mem32Read(mem, GPIO_A_OD_R)) = 0
    /\ ToggleRunFromZero => PinBit(Mem32Read(mem, GPIO_A_OD_R)) = test.rep % 2

C4_Witness ==
    /\ ToggleRunFromZero
    /\ test.rep = 3
    /\ PinBit(Mem32Read(mem, GPIO_A_OD_R)) = 1

\* C5: after modify(R, S, C) every bit in S is 1, every bit in C and not in S is
\* 0, every other bit of R is as before, and no other register changed; the
\* program's own read-modify-write steps (&=~ C, which is modify(R, 0, C), and
\* ^= M) change no bit outside their mask and no other register.
C5_ModifyFrame ==
    /\ Ran("modify") =>
        LET old == Mem32Read(test.pre, TestAddr)
            new == Mem32Read(mem, TestAddr)
        IN  /\ test.s \subseteq new
            /\ (test.c \ test.s) \cap new = {}
            /\ new \ (test.s \cup test.c) = old \ (test.s \cup test.c)
            /\ OthersKept
    /\ Ran("clear") =>
        LET old == Mem32Read(test.pre, TestAddr)
            new == Mem32Read(mem, TestAddr)
        IN  /\ test.c \cap new = {}
            /\ new \ test.c = old \ test.c
            /\ OthersKept
    /\ Ran("toggle") =>
        LET old == Mem32Read(test.pre, TestAddr)
            new == Mem32Read(mem, TestAddr)
        IN  /\ new \ test.s = old \ test.s
            /\ OthersKept

\* bit 10 of GPIO_A_MODE_R cleared in a register that had all bits set
C5_Witness ==
    /\ Ran("clear")
    /\ test.reg = "GPIO_A_MODE_R"
    /\ test.c = Shl1(10)
    /\ Mem32Read(test.pre, GPIO_A_MODE_R) = AllOnes
    /\ Mem32Read(mem, GPIO_A_MODE_R) = AllOnes \ {10}

\* C6 as stated: modify, and each read-modify-write step of the program (&=~ on
\* GPIO_A_MODE_R, ^= on GPIO_A_OD_R), performed twice or more with the same
\* arguments leaves the memory as performing it once did.
C6_AllIdempotent ==
    /\ (Ran("modify") /\ test.rep >= 2) => mem = test.once
    /\ (Ran("clear") /\ test.reg = "GPIO_A_MODE_R" /\ test.rep >= 2) => mem = test.once
    /\ (Ran("toggle") /\ test.reg = "GPIO_A_OD_R" /\ test.s = LED_PIN /\ test.rep >= 2) =>
           mem = test.once

\* C6 amended: modify(R, S, C), S = C = M included, and the program's step
\* &=~ C are idempotent; the program's toggle step ^= M is not: performed twice
\* it leaves the register as it was before the first, and with a non-zero mask
\* not as it was after the first.
C6_IdempotentButToggle ==
    /\ (test.op \in {"modify", "clear"} /\ test.rep >= 2) => mem = test.once
    /\ (Ran("toggle") /\ test.rep = 2) =>
        /\ mem = test.base
        /\ test.s # ZeroWord => mem # test.once

\* modify with S = C = LED_PIN done twice, and a toggle of GPIO_A_OD_R done twice
C6_Witness ==
    \/ /\ Ran("modify")
       /\ test.s = LED_PIN
       /\ test.c = LED_PIN
       /\ test.rep = 2
       /\ Mem32Read(test.base, TestAddr) = ZeroWord
    \/ /\ Ran("toggle")
       /\ test.reg = "GPIO_A_OD_R"
       /\ test.s = LED_PIN
       /\ test.rep = 2

\* C7: a write of V to R is read back as V, changes no other register, and the
\* three register addresses are pairwise distinct.
C7_WriteReadBack ==
    /\ Cardinality(Addrs) = Cardinality(RegNames)
    /\ Ran("write") =>
        /\ Mem32Read(mem, TestAddr) = test.s
        /\ OthersKept

\* 0xFFFFFFFF written over a register that held something else
C7_Witness ==
    /\ Ran("write")
    /\ test.s = AllOnes
    /\ Mem32Read(test.pre, TestAddr) # AllOnes
    /\ Mem32Read(mem, TestAddr) = AllOnes

-----------------------------------------------------------------------------
(* Properties of the two pyb.Pin scripts, checked under SpecPins *)

IsWrite(e) == e[1] = "write"
IsDelay(e) == e[1] = "delay"
IsSample(e) == e[1] = "sample"

Inverse(level) == IF level = 0 THEN 1 ELSE 0

\* C8: output_driver.main never stops, and the levels it writes to PA5 alternate
\* 1, 0, 1, 0, ... starting with 1, with one delay of 1000 ms after each write.
C8_Blinks ==
    /\ out_pc # 0
    /\ Len(out_events) < MaxEvents /\ out_events # <<>> => out_events[1] = <<"write", 1>>
    /\ \A i \in 1..(Len(out_events) - 1) :
        /\ IsWrite(out_events[i]) => out_events[i + 1] = <<"delay", 1000>>
        /\ IsDelay(out_events[i]) => IsWrite(out_events[i + 1])
    /\ \A i \in 1..(Len(out_events) - 2) :
        IsWrite(out_events[i]) =>
            out_events[i + 2] = <<"write", Inverse(out_events[i][2])>>

\* C10: input_driver.main never stops; every LED write directly follows the
\* button sample of its iteration and writes the inverse of the sampled level;
\* every sample is followed by exactly one write before the next sample.
C10_LedInvertsButton ==
    /\ in_pc # "aborted"
    /\ (Len(in_events) < MaxEvents /\ in_events # <<>>) => IsSample(in_events[1])
    /\ \A i \in 1..(Len(in_events) - 1) :
        /\ IsSample(in_events[i]) =>
               in_events[i + 1] = <<"write", Inverse(in_events[i][2])>>
        /\ IsWrite(in_events[i]) => IsSample(in_events[i + 1])
    /\ in_pc \in {"l8", "l10"} <=>
           (in_events # <<>> /\ IsSample(in_events[Len(in_events)]))
    /\ in_pc \in {"l8", "l10"} => in_events[Len(in_events)] = <<"sample", in_sample>>

\* the window is full and holds an LED write of each level
C10_Witness ==
    /\ Len(in_events) = MaxEvents
    /\ \E i \in DOMAIN in_events : in_events[i] = <<"write", 1>>
    /\ \E i \in DOMAIN in_events : in_events[i] = <<"write", 0>>
    /\ in_pc = "l7"

====
